---------------------------- MODULE Spec2Model ----------------------------
(***************************************************************************)
(* ChatGPTana: conversion of a ChatGPT conversation export into Tana Paste *)
(* text (json_to_tana_paste_merged_fast), its split into chunks            *)
(* (split_tana_by_conversations, split_conversation_by_qna,                *)
(* force_split_large_qna_block) and the merge of the chunks into files     *)
(* (best_fit_decreasing), as written in src/ChatGPTana_Streamlit.py.       *)
(*                                                                         *)
(* A Python str is a sequence of one-character strings, so that len,       *)
(* startswith, split, splitlines, strip and replace are computed on the    *)
(* characters as the code computes them.  The two curly quotes are the     *)
(* one-character tokens LDQUO and RDQUO.  Line separators other than "\n"  *)
(* do not occur in the inputs of the model.                                *)
(***************************************************************************)
EXTENDS Integers, Sequences, FiniteSets, TLC

(***************************************************************************)
(* Python str operations                                                   *)
(***************************************************************************)

\* U+201C and U+201D, each one character of a str
LDQUO == "ldquo"
RDQUO == "rdquo"
DQUOTE == "\""

\* an absent timestamp (None); the timestamps of the model are >= 0
NoTime == -1

Min(S) == CHOOSE x \in S : \A y \in S : x <= y

\* s.startswith(p)
StartsWith(s, p) ==
    /\ Len(p) <= Len(s)
    /\ SubSeq(s, 1, Len(p)) = p

\* s.endswith(p)
EndsWith(s, p) ==
    /\ Len(p) <= Len(s)
    /\ SubSeq(s, Len(s) - Len(p) + 1, Len(s)) = p

\* s.find(sep, start), 1-based; 0 when sep does not occur at or after start
Find(s, sep, start) ==
    LET C == { i \in start..(Len(s) - Len(sep) + 1) :
                 /\ s[i] = sep[1]
                 /\ SubSeq(s, i, i + Len(sep) - 1) = sep }
    IN  IF C = {} THEN 0 ELSE Min(C)

\* sep in s
Contains(s, sep) == Find(s, sep, 1) # 0

RECURSIVE SplitFrom(_, _, _)
SplitFrom(s, sep, start) ==
    LET p == Find(s, sep, start)
    IN  IF p = 0
        THEN << SubSeq(s, start, Len(s)) >>
        ELSE << SubSeq(s, start, p - 1) >> \o SplitFrom(s, sep, p + Len(sep))

\* s.split(sep)
Split(s, sep) == SplitFrom(s, sep, 1)

\* s.splitlines(): the pieces between line breaks, without a last empty piece
splitlines(s) ==
    LET ps == Split(s, << "\n" >>)
    IN  IF ps[Len(ps)] = << >> THEN SubSeq(ps, 1, Len(ps) - 1) ELSE ps

RECURSIVE Join(_, _)
\* sep.join(strs)
Join(strs, sep) ==
    IF strs = << >> THEN << >>
    ELSE IF Len(strs) = 1 THEN strs[1]
    ELSE strs[1] \o sep \o Join(Tail(strs), sep)

Whitespace == { " ", "\n", "\t" }

\* s.strip()
Strip(s) ==
    LET K == { i \in 1..Len(s) : s[i] \notin Whitespace }
    IN  IF K = {} THEN << >>
        ELSE SubSeq(s, Min(K), CHOOSE i \in K : \A j \in K : j <= i)

\* s.replace(old, ""): the non-overlapping occurrences, left to right
Remove(s, old) == Join(Split(s, old), << >>)

\* s.count(pat) for a one-character pat
CountChar(s, c) == Cardinality({ i \in 1..Len(s) : s[i] = c })

RECURSIVE CountFrom(_, _, _)
CountFrom(s, pat, start) ==
    LET p == Find(s, pat, start)
    IN  IF p = 0 THEN 0 ELSE 1 + CountFrom(s, pat, p + Len(pat))

\* s.count(pat): non-overlapping occurrences
Count(s, pat) == CountFrom(s, pat, 1)

\* " " * n
Spaces(n) == [ i \in 1..n |-> " " ]

(***************************************************************************)
(* The literals of the source                                              *)
(***************************************************************************)

TANA_MARKER ==
    <<"%","%","t","a","n","a","%","%">>
overall_header ==
    <<"%","%","t","a","n","a","%","%","\n","\n">>
CHATGPT_TAG ==
    <<" ","#","c","h","a","t","g","p","t">>
TITLE_FIELD ==
    <<" "," ","-"," ","T","i","t","l","e",":",":"," ">>
CREATED_FIELD ==
    <<" "," ","-"," ","C","r","e","a","t","e","d"," ","T","i","m","e",":",":"," ">>
UPDATED_FIELD ==
    <<" "," ","-"," ","U","p","d","a","t","e","d"," ","T","i","m","e",":",":"," ">>
CHAT_FIELD ==
    <<" "," ","-"," ","C","h","a","t",":",":">>
QUESTION_TAG_LINE ==
    <<" "," "," "," ","-"," ","#","c","h","a","t","g","p","t","q","u","e","s","t","i","o","n">>
QUESTION_FIELD ==
    <<" "," "," "," "," "," ","-"," ","q","u","e","s","t","i","o","n",":",":">>
AUDIO_LENGTH_FIELD ==
    <<" "," "," "," "," "," ","-"," ","a","u","d","i","o","_","l","e","n","g","t","h",":",":"," ">>
QUESTION_TIME_FIELD ==
    <<" "," "," "," "," "," ","-"," ","q","u","e","s","t","i","o","n","_","t","i","m","e",":",":"," ">>
CHAT_TYPE_FIELD ==
    <<" "," "," "," "," "," ","-"," ","c","h","a","t","_","t","y","p","e",":",":"," ">>
ANSWER_FIELD ==
    <<" "," "," "," "," "," ","-"," ","a","n","s","w","e","r",":",":">>
STANDALONE_LINE ==
    <<" "," "," "," ","-"," ","C","h","a","t","G","P","T",":",":">>
QNA_START_A ==
    <<"-"," ","#","c","h","a","t","g","p","t","q","u","e","s","t","i","o","n">>
QNA_START_B ==
    <<" "," "," "," ","-"," ","#","c","h","a","t","g","p","t","q","u","e","s","t","i","o","n">>
CONV_SEP ==
    <<"\n","\n","-"," ">>
VOICE ==
    <<"v","o","i","c","e">>
TEXT ==
    <<"t","e","x","t">>
NL == << "\n" >>
NLNL == << "\n", "\n" >>

\* MAX_FILE_SIZE, the budget of the app and of finalize_qa
MAX_FILE_SIZE == 100000

(***************************************************************************)
(* Helper functions of the source                                          *)
(***************************************************************************)

DigitChars == << "0", "1", "2", "3", "4", "5", "6", "7", "8", "9" >>
TwoDigits(n) == << DigitChars[(n \div 10) + 1], DigitChars[(n % 10) + 1] >>

\* convert_timestamp(ts) for 0 <= ts < 86400 seconds, local time being UTC
convert_timestamp(ts) ==
    IF ts = NoTime THEN << >>
    ELSE <<"[","[","d","a","t","e",":","1","9","7","0","-","0","1","-","0","1"," ">>
         \o TwoDigits((ts \div 3600) % 24) \o << ":" >>
         \o TwoDigits((ts % 3600) \div 60) \o << "]", "]" >>

remove_extra_tana_tags(text) == Remove(text, TANA_MARKER)

RECURSIVE NodeLines(_, _)
NodeLines(lines, indent_level) ==
    IF lines = << >> THEN << >>
    ELSE LET rest == NodeLines(Tail(lines), indent_level)
         IN  IF Strip(lines[1]) # << >>
             THEN << Spaces(indent_level) \o << "-", " " >> \o Strip(lines[1]) >> \o rest
             ELSE rest

format_multiline_as_nodes(text, indent_level) ==
    IF text = << >> THEN << >>
    ELSE Join(NodeLines(splitlines(text), indent_level), NL)

\* extract_text(msg): the parts of the model are str parts
extract_text(msg) == Strip(remove_extra_tana_tags(Join(msg.parts, << " " >>)))

(***************************************************************************)
(* The state of one conversion                                             *)
(***************************************************************************)

VARIABLES
    json_data,         \* the export: a sequence of conversations
    max_chars,         \* the budget handed to the splitter and the merger
    pc,                \* the position of the conversion
    i,                 \* index of the conversation being converted
    messages,          \* its messages, sorted
    k,                 \* index of the next message of the for loop
    conv_header,       \* the header lines of the conversation
    pending_user,      \* << >> (None) or << msg >>
    assistant_buffer,  \* the answer texts since the pending question
    out_lines,         \* the output accumulator
    records,           \* the Q-A blocks finalize_qa has emitted, as records
    tana_text,         \* result of json_to_tana_paste_merged_fast
    initial_chunks,    \* result of split_tana_by_conversations
    merged_chunks,     \* result of best_fit_decreasing
    uploaded_file,     \* the file in the uploader: << >> (None) or << file >>
    session_state,     \* st.session_state: json_data and merged_chunks
    page               \* what the last run of the script has put on the page

\* the state of the app around a conversion
app_vars == << uploaded_file, session_state, page >>

vars == << json_data, max_chars, pc, i, messages, k, conv_header, pending_user,
           assistant_buffer, out_lines, records, tana_text, initial_chunks,
           merged_chunks, uploaded_file, session_state, page >>

\* st.session_state at the start of a session: no json_data, merged_chunks None
NewSession == [ json_data |-> << >>, merged_chunks |-> << >> ]

\* a page with nothing on it
BlankPage == [ button |-> FALSE, errors |-> { }, files |-> << >> ]

(***************************************************************************)
(* force_split_large_qna_block                                             *)
(***************************************************************************)

RECURSIVE ForceSplitLoop(_, _, _, _, _)
\* the for loop over the lines and the flush after it
ForceSplitLoop(lines, available, subblocks, current_block, current_length) ==
    IF lines = << >>
    THEN IF current_block # << >>
         THEN Append(subblocks, Join(current_block, NL))
         ELSE subblocks
    ELSE LET line == lines[1]
             line_length == Len(line) + 1
         IN  IF current_length + line_length > available /\ current_block # << >>
             THEN ForceSplitLoop(Tail(lines), available,
                                 Append(subblocks, Join(current_block, NL)),
                                 << line >>, line_length)
             ELSE ForceSplitLoop(Tail(lines), available, subblocks,
                                 Append(current_block, line),
                                 current_length + line_length)

force_split_large_qna_block(qa_block, available) ==
    ForceSplitLoop(splitlines(qa_block), available, << >>, << >>, 0)

(***************************************************************************)
(* json_to_tana_paste_merged_fast: one conversation                        *)
(***************************************************************************)

\* conv.get("title", "No Title"): the title of the model is << >> when missing
TitleOf(conv) ==
    IF conv.title = << >> THEN <<"N","o"," ","T","i","t","l","e">> ELSE conv.title[1]

\* the conv_header list; a timestamp of None or 0 adds no line
ConvHeader(conv) ==
    LET title == TitleOf(conv)
    IN  << << "-", " " >> \o title \o CHATGPT_TAG, TITLE_FIELD \o title >>
        \o (IF conv.create_time # NoTime /\ conv.create_time # 0
            THEN << CREATED_FIELD \o convert_timestamp(conv.create_time) >>
            ELSE << >>)
        \o (IF conv.update_time # NoTime /\ conv.update_time # 0
            THEN << UPDATED_FIELD \o convert_timestamp(conv.update_time) >>
            ELSE << >>)
        \o << CHAT_FIELD >>

\* the sort key: m.get("create_time") or 0
SortKey(m) == IF m.create_time = NoTime THEN 0 ELSE m.create_time

RECURSIVE InsertSortedUnstable(_, _)
\* InsertSorted with < for <=: equal keys change places
InsertSortedUnstable(sorted, m) ==
    IF sorted = << >> THEN << m >>
    ELSE IF SortKey(sorted[Len(sorted)]) < SortKey(m)
         THEN Append(sorted, m)
         ELSE Append(InsertSortedUnstable(SubSeq(sorted, 1, Len(sorted) - 1), m),
                     sorted[Len(sorted)])

RECURSIVE InsertSorted(_, _)
\* m goes after every element whose key is <= its own: the sort is stable
InsertSorted(sorted, m) ==
    IF sorted = << >> THEN << m >>
    ELSE IF SortKey(sorted[Len(sorted)]) <= SortKey(m)
         THEN Append(sorted, m)
         ELSE Append(InsertSorted(SubSeq(sorted, 1, Len(sorted) - 1), m),
                     sorted[Len(sorted)])

RECURSIVE SortFrom(_, _)
SortFrom(sorted, rest) ==
    IF rest = << >> THEN sorted
    ELSE SortFrom(InsertSorted(sorted, rest[1]), Tail(rest))

\* messages.sort(key=...): list.sort is stable
SortMessages(msgs) == SortFrom(<< >>, msgs)

RECURSIVE GatherMessages(_)
\* the messages of mapping.values() that are present, in enumeration order
GatherMessages(mapping) ==
    IF mapping = << >> THEN << >>
    ELSE mapping[1].message \o GatherMessages(Tail(mapping))

\* quoted: startswith one of the two opening quotes and endswith one of the
\* two closing quotes
Quoted(user_text) ==
    /\ (StartsWith(user_text, << LDQUO >>) \/ StartsWith(user_text, << DQUOTE >>))
    /\ (EndsWith(user_text, << RDQUO >>) \/ EndsWith(user_text, << DQUOTE >>))

\* user_text after the quotes are cut: user_text[1:-1].strip()
RenderedQuestion(user_text) ==
    IF Quoted(user_text)
    THEN Strip(SubSeq(user_text, 2, Len(user_text) - 1))
    ELSE user_text

ChatType(user_text) == IF Quoted(user_text) THEN VOICE ELSE TEXT

\* MergedAnswer that keeps the last answer text only
MergedAnswerLast(buffer) == Strip(buffer[Len(buffer)])

\* "\n".join(assistant_buffer).strip()
MergedAnswer(buffer) == Strip(Join(buffer, NL))

\* the qa_block string of finalize_qa; a q_time of None or 0 adds no line
QaBlock(pending, buffer) ==
    LET user_text == extract_text(pending)
        q_time == pending.create_time
        q_time_str == IF q_time # NoTime /\ q_time # 0
                      THEN convert_timestamp(q_time) ELSE << >>
        qa_lines ==
            << QUESTION_TAG_LINE,
               QUESTION_FIELD,
               format_multiline_as_nodes(RenderedQuestion(user_text), 8) >>
            \o (IF q_time_str # << >>
                THEN IF ChatType(user_text) = VOICE
                     THEN << AUDIO_LENGTH_FIELD \o q_time_str >>
                     ELSE << QUESTION_TIME_FIELD \o q_time_str >>
                ELSE << >>)
            \o << CHAT_TYPE_FIELD \o ChatType(user_text),
                  ANSWER_FIELD,
                  format_multiline_as_nodes(MergedAnswer(buffer), 8) >>
    IN  Join(qa_lines, NL)

RECURSIVE EachThenBlank(_)
EachThenBlank(subblocks) ==
    IF subblocks = << >> THEN << >>
    ELSE << subblocks[1], << >> >> \o EachThenBlank(Tail(subblocks))

\* FinalizeFires without the test of the buffer
FinalizeFiresUnanswered(pending, buffer) == pending # << >>

\* finalize_qa fires only with a pending question and a non-empty buffer
FinalizeFires(pending, buffer) == pending # << >> /\ buffer # << >>

\* what finalize_qa appends to out_lines
FinalizeOut(header, pending, buffer) ==
    IF ~FinalizeFires(pending, buffer) THEN << >>
    ELSE LET qa_block == QaBlock(pending[1], buffer)
             header_len == Len(Join(header, NL)) + 2
         IN  IF Len(qa_block) + header_len > MAX_FILE_SIZE
             THEN EachThenBlank(force_split_large_qna_block(
                                    qa_block, MAX_FILE_SIZE - header_len - 2))
             ELSE << qa_block, << >> >>

\* the block finalize_qa emits, as a record
FinalizeRecord(conv_index, pending, buffer) ==
    IF ~FinalizeFires(pending, buffer) THEN << >>
    ELSE << [ conv      |-> conv_index,
              q         |-> pending[1].id,
              user_text |-> extract_text(pending[1]),
              question  |-> RenderedQuestion(extract_text(pending[1])),
              chat_type |-> ChatType(extract_text(pending[1])),
              answer    |-> MergedAnswer(buffer),
              block     |-> QaBlock(pending[1], buffer) ] >>

\* filter_canvas_json: no line of the model's inputs is a JSON object, so
\* every line is kept and the lines are joined again
filter_canvas_json(text) == Join(splitlines(text), NL)

(***************************************************************************)
(* json_to_tana_paste_merged_fast: the steps                               *)
(***************************************************************************)

\* out_lines = ["%%tana%%", ""]
Start ==
    /\ pc = "start"
    /\ UNCHANGED app_vars
    /\ out_lines' = << TANA_MARKER, << >> >>
    /\ i' = 1
    /\ pc' = IF json_data = << >> THEN "join" ELSE "conv"
    /\ UNCHANGED << json_data, max_chars, messages, k, conv_header, pending_user,
                    assistant_buffer, records, tana_text, initial_chunks,
                    merged_chunks >>

\* the head of the loop, were pending_user and assistant_buffer not set anew
ConvBeginKeepPending ==
    /\ pc = "conv"
    /\ UNCHANGED app_vars
    /\ LET conv == json_data[i]
       IN  /\ conv_header' = ConvHeader(conv)
           /\ out_lines' = out_lines \o << Join(ConvHeader(conv), NL), << >> >>
           /\ messages' = SortMessages(GatherMessages(conv.mapping))
    /\ k' = 1
    /\ pc' = "msgs"
    /\ UNCHANGED << json_data, max_chars, i, records, tana_text, initial_chunks,
                    merged_chunks, pending_user, assistant_buffer >>

\* the head of the loop over the conversations: header, gather, sort
ConvBegin ==
    /\ pc = "conv"
    /\ UNCHANGED app_vars
    /\ LET conv == json_data[i]
       IN  /\ conv_header' = ConvHeader(conv)
           /\ out_lines' = out_lines \o << Join(ConvHeader(conv), NL), << >> >>
           /\ messages' = SortMessages(GatherMessages(conv.mapping))
    /\ pending_user' = << >>
    /\ assistant_buffer' = << >>
    /\ k' = 1
    /\ pc' = "msgs"
    /\ UNCHANGED << json_data, max_chars, i, records, tana_text, initial_chunks,
                    merged_chunks >>

\* one iteration of "for msg in messages"
MsgStep ==
    /\ pc = "msgs"
    /\ UNCHANGED app_vars
    /\ k <= Len(messages)
    /\ LET msg == messages[k]
           role == msg.role
           text == extract_text(msg)
       IN  IF text = << >>
           THEN UNCHANGED << pending_user, assistant_buffer, out_lines, records >>
           ELSE IF role = "user"
           THEN /\ out_lines' = out_lines
                        \o FinalizeOut(conv_header, pending_user, assistant_buffer)
                /\ records' = records
                        \o FinalizeRecord(i, pending_user, assistant_buffer)
                /\ pending_user' = << msg >>
                /\ assistant_buffer' = << >>
           ELSE IF role \in { "assistant", "tool" }
           THEN IF pending_user # << >>
                THEN /\ assistant_buffer' = Append(assistant_buffer, text)
                     /\ UNCHANGED << pending_user, out_lines, records >>
                ELSE /\ out_lines' = out_lines
                            \o << STANDALONE_LINE, format_multiline_as_nodes(text, 8) >>
                     /\ UNCHANGED << pending_user, assistant_buffer, records >>
           ELSE UNCHANGED << pending_user, assistant_buffer, out_lines, records >>
    /\ k' = k + 1
    /\ UNCHANGED << json_data, max_chars, pc, i, messages, conv_header, tana_text,
                    initial_chunks, merged_chunks >>

\* after the loop: finalize_qa(), out_lines.append(""), next conversation
ConvEnd ==
    /\ pc = "msgs"
    /\ UNCHANGED app_vars
    /\ k > Len(messages)
    /\ out_lines' = out_lines
            \o FinalizeOut(conv_header, pending_user, assistant_buffer)
            \o << << >> >>
    /\ records' = records \o FinalizeRecord(i, pending_user, assistant_buffer)
    /\ pending_user' = IF FinalizeFires(pending_user, assistant_buffer)
                       THEN << >> ELSE pending_user
    /\ assistant_buffer' = IF FinalizeFires(pending_user, assistant_buffer)
                           THEN << >> ELSE assistant_buffer
    /\ i' = i + 1
    /\ pc' = IF i = Len(json_data) THEN "join" ELSE "conv"
    /\ UNCHANGED << json_data, max_chars, messages, k, conv_header, tana_text,
                    initial_chunks, merged_chunks >>

\* merged_text = "\n".join(out_lines); return filter_canvas_json(merged_text)
Finish ==
    /\ pc = "join"
    /\ UNCHANGED app_vars
    /\ tana_text' = filter_canvas_json(Join(out_lines, NL))
    /\ pc' = "converted"
    /\ UNCHANGED << json_data, max_chars, i, messages, k, conv_header, pending_user,
                    assistant_buffer, out_lines, records, initial_chunks,
                    merged_chunks >>

(***************************************************************************)
(* split_conversation_by_qna                                               *)
(***************************************************************************)

\* line.strip().startswith("- #chatgptquestion") or
\* line.strip().startswith("    - #chatgptquestion")
IsQnaStart(line) ==
    \/ StartsWith(Strip(line), QNA_START_A)
    \/ StartsWith(Strip(line), QNA_START_B)

\* a finished current_qna goes to qna_blocks, force-split when over max_chars
CloseQna(qna_blocks, current_qna, budget) ==
    LET block == Join(current_qna, NL)
    IN  IF Len(block) > budget
        THEN qna_blocks \o force_split_large_qna_block(block, budget)
        ELSE Append(qna_blocks, block)

RECURSIVE QnaParseLoop(_, _, _, _, _, _)
\* the first loop: header_lines and qna_blocks
QnaParseLoop(lines, budget, header_lines, qna_blocks, current_qna, header_found) ==
    IF lines = << >>
    THEN [ header_lines |-> header_lines,
           qna_blocks   |-> IF current_qna # << >>
                            THEN CloseQna(qna_blocks, current_qna, budget)
                            ELSE qna_blocks ]
    ELSE LET line == lines[1]
         IN  IF ~header_found
             THEN QnaParseLoop(Tail(lines), budget, Append(header_lines, line),
                               qna_blocks, current_qna, Contains(line, CHAT_FIELD))
             ELSE IF IsQnaStart(line) /\ current_qna # << >>
             THEN QnaParseLoop(Tail(lines), budget, header_lines,
                               CloseQna(qna_blocks, current_qna, budget),
                               << line >>, TRUE)
             ELSE QnaParseLoop(Tail(lines), budget, header_lines, qna_blocks,
                               Append(current_qna, line), TRUE)

\* finalize_chunk of split_conversation_by_qna
QnaFinalizeChunk(header_text, chunk_lines) ==
    header_text \o NLNL \o Join(chunk_lines, NLNL)

RECURSIVE QnaPackLoop(_, _, _, _, _, _)
\* the second loop: the blocks are packed first-fit, in order
QnaPackLoop(blocks, budget, header_text, chunks, current_chunk, current_length) ==
    IF blocks = << >>
    THEN IF current_chunk # << >>
         THEN Append(chunks, QnaFinalizeChunk(header_text, current_chunk))
         ELSE chunks
    ELSE LET block == blocks[1]
             block_len == Len(block) + 2
         IN  IF current_length + block_len > budget /\ current_chunk # << >>
             THEN QnaPackLoop(Tail(blocks), budget, header_text,
                              Append(chunks, QnaFinalizeChunk(header_text, current_chunk)),
                              << block >>, Len(header_text) + 2 + block_len)
             ELSE QnaPackLoop(Tail(blocks), budget, header_text, chunks,
                              Append(current_chunk, block),
                              current_length + block_len)

\* the header lines and the blocks split_conversation_by_qna finds
QnaParse(conv_text, budget) ==
    QnaParseLoop(splitlines(conv_text), budget, << >>, << >>, << >>, FALSE)

split_conversation_by_qna(conv_text, budget) ==
    LET parsed == QnaParse(conv_text, budget)
        header_text == Join(parsed.header_lines, NL)
    IN  QnaPackLoop(parsed.qna_blocks, budget, header_text, << >>, << >>,
                    Len(header_text) + 2)

(***************************************************************************)
(* split_tana_by_conversations                                             *)
(***************************************************************************)

\* body: the text after the overall header, when it starts with it
BodyOf(text) ==
    IF StartsWith(text, overall_header)
    THEN SubSeq(text, Len(overall_header) + 1, Len(text))
    ELSE text

\* convos: body.split("\n\n- "), "- " put back in front of all but the first
Convos(text) ==
    LET parts == Split(BodyOf(text), CONV_SEP)
    IN  [ n \in 1..Len(parts) |->
            IF n = 1 THEN parts[1] ELSE << "-", " " >> \o parts[n] ]

\* ConvFinalizeChunk that keeps the last conversation of the chunk only
ConvFinalizeChunkLast(chunk_list) == overall_header \o chunk_list[Len(chunk_list)]

\* finalize_chunk of split_tana_by_conversations
ConvFinalizeChunk(chunk_list) == overall_header \o Join(chunk_list, NLNL)

RECURSIVE ConvPackLoop(_, _, _, _, _)
ConvPackLoop(convos, budget, chunks, current_chunk, current_length) ==
    IF convos = << >>
    THEN IF current_chunk # << >>
         THEN Append(chunks, ConvFinalizeChunk(current_chunk))
         ELSE chunks
    ELSE LET convo == convos[1]
             flushed == IF current_chunk # << >>
                        THEN Append(chunks, ConvFinalizeChunk(current_chunk))
                        ELSE chunks
         IN  IF Len(convo) + Len(overall_header) > budget
             THEN ConvPackLoop(Tail(convos), budget,
                               flushed \o split_conversation_by_qna(
                                              overall_header \o convo, budget),
                               << >>,
                               IF current_chunk # << >>
                               THEN Len(overall_header) ELSE current_length)
             ELSE LET extra == IF current_chunk # << >> THEN 2 ELSE 0
                  IN  IF current_length + Len(convo) + extra > budget
                         /\ current_chunk # << >>
                      THEN ConvPackLoop(Tail(convos), budget, flushed, << convo >>,
                                        Len(overall_header) + Len(convo))
                      ELSE ConvPackLoop(Tail(convos), budget, chunks,
                                        Append(current_chunk, convo),
                                        current_length + Len(convo) + extra)

split_tana_by_conversations(text, budget) ==
    ConvPackLoop(Convos(text), budget, << >>, << >>, Len(overall_header))

(***************************************************************************)
(* best_fit_decreasing                                                     *)
(***************************************************************************)

\* the content of a chunk: the chunk without its prefix, when it has one
ContentOf(c) ==
    IF StartsWith(c, overall_header)
    THEN SubSeq(c, Len(overall_header) + 1, Len(c))
    ELSE c

RECURSIVE InsertBySize(_, _)
\* c goes after every element at least as long: descending and stable
InsertBySize(sorted, c) ==
    IF sorted = << >> THEN << c >>
    ELSE IF Len(sorted[Len(sorted)]) >= Len(c)
         THEN Append(sorted, c)
         ELSE Append(InsertBySize(SubSeq(sorted, 1, Len(sorted) - 1), c),
                     sorted[Len(sorted)])

RECURSIVE SortBySizeFrom(_, _)
SortBySizeFrom(sorted, rest) ==
    IF rest = << >> THEN sorted
    ELSE SortBySizeFrom(InsertBySize(sorted, rest[1]), Tail(rest))

\* chunk_info after chunk_info.sort(key=size, reverse=True): the contents
ChunkInfo(chunks) ==
    SortBySizeFrom(<< >>, [ n \in 1..Len(chunks) |-> ContentOf(chunks[n]) ])

\* a test of room that every bin passes, whatever it has used
FitsBinAlways(size, used, budget) == size + 2 <= budget + size + 2

\* whether a chunk of this size goes into a bin with this much used
FitsBin(size, used, budget) == size + 2 <= budget - used

RECURSIVE BestIdxLoopFirstFit(_, _, _, _, _, _)
\* the inner loop made first fit: the first bin with room, 0 when none fits
BestIdxLoopFirstFit(bins, n, size, budget, best_idx, best_leftover) ==
    IF n > Len(bins) THEN best_idx
    ELSE IF FitsBin(size, bins[n].used, budget) /\ best_idx = 0
         THEN BestIdxLoopFirstFit(bins, n + 1, size, budget, n, best_leftover)
         ELSE BestIdxLoopFirstFit(bins, n + 1, size, budget, best_idx, best_leftover)

RECURSIVE BestIdxLoop(_, _, _, _, _, _)
\* the inner loop over the bins: the index of the best bin, 0 when none fits
BestIdxLoop(bins, n, size, budget, best_idx, best_leftover) ==
    IF n > Len(bins) THEN best_idx
    ELSE LET leftover == budget - bins[n].used
         IN  IF FitsBin(size, bins[n].used, budget)
                /\ leftover - (size + 2) < best_leftover
             THEN BestIdxLoop(bins, n + 1, size, budget, n, leftover - (size + 2))
             ELSE BestIdxLoop(bins, n + 1, size, budget, best_idx, best_leftover)

BestIdx(bins, size, budget) == BestIdxLoop(bins, 1, size, budget, 0, budget + 1)

RECURSIVE BinLoop(_, _, _)
\* the outer loop: each content goes into its best bin or opens a new one
BinLoop(chunk_info, budget, bins) ==
    IF chunk_info = << >> THEN bins
    ELSE LET content == chunk_info[1]
             size == Len(content)
             best_idx == BestIdx(bins, size, budget)
         IN  IF best_idx >= 1
             THEN BinLoop(Tail(chunk_info), budget,
                          [ bins EXCEPT ![best_idx] =
                              [ text  |-> @.text \o NLNL \o content,
                                used  |-> @.used + size + 2,
                                items |-> Append(@.items, content) ] ])
             ELSE BinLoop(Tail(chunk_info), budget,
                          Append(bins, [ text  |-> content,
                                         used  |-> size,
                                         items |-> << content >> ]))

\* the bins of best_fit_decreasing; items lists the contents put into a bin
Bins(chunks, budget) == BinLoop(ChunkInfo(chunks), budget, << >>)

best_fit_decreasing(chunks, budget) ==
    LET bins == Bins(chunks, budget)
    IN  [ n \in 1..Len(bins) |-> overall_header \o bins[n].text ]

(***************************************************************************)
(* The pipeline of the app: convert, split, merge                          *)
(***************************************************************************)

\* initial_chunks = split_tana_by_conversations(tana_text, max_chars)
SplitChunks ==
    /\ pc = "converted"
    /\ UNCHANGED app_vars
    /\ initial_chunks' = split_tana_by_conversations(tana_text, max_chars)
    /\ pc' = "split"
    /\ UNCHANGED << json_data, max_chars, i, messages, k, conv_header, pending_user,
                    assistant_buffer, out_lines, records, tana_text, merged_chunks >>

\* merged_chunks = best_fit_decreasing(initial_chunks, max_chars)
MergeChunks ==
    /\ pc = "split"
    /\ UNCHANGED app_vars
    /\ merged_chunks' = best_fit_decreasing(initial_chunks, max_chars)
    /\ pc' = "merged"
    /\ UNCHANGED << json_data, max_chars, i, messages, k, conv_header, pending_user,
                    assistant_buffer, out_lines, records, tana_text, initial_chunks >>

(***************************************************************************)
(* The exports of the model                                                *)
(***************************************************************************)

\* most nodes of a mapping in the exports that vary roles and timestamps
MaxMsgs == 3
\* most conversations of an export of several conversations
MaxConvs == 3

\* Every message text of an export holds one letter that occurs in no other
\* message of the export and in no literal of the source: the letter tells
\* where the text of the message went.
Letters == << "X", "Y", "Z", "W", "V", "K", "J", "H", "F", "B" >>

Roles == { "user", "assistant", "tool", "system" }

\* the parts of a message, around its letter
Parts(style, L) ==
    CASE style = "plain"  -> << << L >> >>
      [] style = "empty"  -> << << " " >> >>
      [] style = "noparts" -> << >>
      [] style = "dq"     -> << << DQUOTE, L, DQUOTE >> >>
      [] style = "curly"  -> << << LDQUO, L, RDQUO >> >>
      [] style = "mixed"  -> << << LDQUO, L, DQUOTE >> >>
      [] style = "mixed2" -> << << DQUOTE, L, RDQUO >> >>
      [] style = "open"   -> << << DQUOTE, L >> >>
      [] style = "inner"  -> << << L, DQUOTE, DQUOTE >> >>
      [] style = "hashq"  -> << SubSeq(QNA_START_A, 3, Len(QNA_START_A)) \o << " ", L >> >>
      [] style = "marker" -> << TANA_MARKER, << L >> \o TANA_MARKER >>
      [] style = "lines"  -> << << L, "a", "\n", "\n", " ", "b", " " >>, << "c" >> >>

Msg(id, role, style, L, t) ==
    [ id |-> id, role |-> role, parts |-> Parts(style, L), create_time |-> t ]

Node(m) == [ message |-> << m >> ]
EmptyNode == [ message |-> << >> ]

Conv(title, ct, ut, mapping) ==
    [ title |-> title, create_time |-> ct, update_time |-> ut, mapping |-> mapping ]

PlainTitle == << << "T" >> >>

\* one conversation, every role and an empty text at every node
RoleMappings ==
    UNION { [ 1..n -> Roles \X { "plain", "empty", "noparts" } ] : n \in 0..MaxMsgs }
RoleExports ==
    { << Conv(PlainTitle, NoTime, NoTime,
              [ n \in DOMAIN f |-> Node(Msg(n, f[n][1], f[n][2], Letters[n], NoTime)) ]) >>
      : f \in RoleMappings }

\* one conversation of spoken messages, long enough for a question with
\* several answers to be followed by the next question
DialogueMappings == [ 1..(MaxMsgs + 1) -> { "user", "assistant", "tool" } ]
DialogueExports ==
    { << Conv(PlainTitle, NoTime, NoTime,
              [ n \in DOMAIN f |-> Node(Msg(n, f[n], "plain", Letters[n], NoTime)) ]) >>
      : f \in DialogueMappings }

\* one conversation, every order of timestamps, missing ones and nodes
\* without a message
Times == { NoTime, 0, 1, 2 }
TimeMappings == UNION { [ 1..n -> Times \cup { NoTime - 1 } ] : n \in 0..MaxMsgs }
TimeExports ==
    { << Conv(PlainTitle, NoTime, NoTime,
              [ n \in DOMAIN f |->
                  IF f[n] = NoTime - 1 THEN EmptyNode
                  ELSE Node(Msg(n, "assistant", "plain", Letters[n], f[n])) ]) >>
      : f \in TimeMappings }

\* one question of every quoting, with and without a timestamp, and its answer
QuoteStyles ==
    { "plain", "dq", "curly", "mixed", "mixed2", "open", "inner", "marker", "lines" }
QuoteExports ==
    { << Conv(PlainTitle, NoTime, NoTime,
              << Node(Msg(1, "user", s, "X", t)),
                 Node(Msg(2, r, "lines", "Y", NoTime)) >>) >>
      : s \in QuoteStyles, t \in { NoTime, 0, 3725 }, r \in { "assistant", "tool" } }

\* titles: plain, missing, holding the marker, holding the Chat:: line
Titles ==
    { PlainTitle, << >>, << TANA_MARKER >>, << CHAT_FIELD >> }

\* mappings that serialize to one, two and three blocks
BlockMappings ==
    { << Node(Msg(1, "user", "plain", "X", NoTime)),
         Node(Msg(2, "assistant", "plain", "Y", NoTime)) >>,
      << Node(Msg(1, "user", "plain", "X", NoTime)),
         Node(Msg(2, "assistant", "plain", "Y", NoTime)),
         Node(Msg(3, "assistant", "hashq", "Z", NoTime)) >>,
      << Node(Msg(1, "assistant", "plain", "X", NoTime)),
         Node(Msg(2, "user", "dq", "Y", 60)),
         Node(Msg(3, "tool", "plain", "Z", NoTime)),
         Node(Msg(4, "user", "plain", "W", NoTime)),
         Node(Msg(5, "assistant", "lines", "V", NoTime)) >>,
      << >> }

\* budgets around the sizes of one header, one block and one conversation
Budgets == { 40, 90, 140, 150, 160, 185, 200, 330, MAX_FILE_SIZE }

BlockExports ==
    { << Conv(title, ct, NoTime, mapping) >>
      : title \in Titles, ct \in { NoTime, 3725 }, mapping \in BlockMappings }

\* exports of several small conversations
ConvKinds == { "QA", "A", "U" }
KindConv(kind, c) ==
    LET L1 == Letters[2 * c - 1]
        L2 == Letters[2 * c]
    IN  CASE kind = "QA" ->
               Conv(PlainTitle, NoTime, 60,
                    << Node(Msg(1, "user", "plain", L1, NoTime)),
                       Node(Msg(2, "assistant", "plain", L2, NoTime)) >>)
          [] kind = "A" ->
               Conv(PlainTitle, NoTime, NoTime,
                    << Node(Msg(1, "assistant", "plain", L1, NoTime)) >>)
          [] kind = "U" ->
               Conv(PlainTitle, NoTime, NoTime,
                    << Node(Msg(1, "user", "plain", L1, NoTime)) >>)
KindSeqs == UNION { [ 1..n -> ConvKinds ] : n \in 1..MaxConvs }
ManyExports ==
    { [ c \in DOMAIN f |-> KindConv(f[c], c) ] : f \in KindSeqs }
ManyBudgets == { 70, 120, 200, 300, MAX_FILE_SIZE }

InitOf(export, budget) ==
    /\ json_data = export
    /\ max_chars = budget
    /\ pc = "start"
    /\ i = 0
    /\ messages = << >>
    /\ k = 0
    /\ conv_header = << >>
    /\ pending_user = << >>
    /\ assistant_buffer = << >>
    /\ out_lines = << >>
    /\ records = << >>
    /\ tana_text = << >>
    /\ initial_chunks = << >>
    /\ merged_chunks = << >>
    /\ uploaded_file = << >>
    /\ session_state = NewSession
    /\ page = BlankPage

Init ==
    \/ \E e \in RoleExports \cup DialogueExports \cup TimeExports \cup QuoteExports :
          InitOf(e, MAX_FILE_SIZE)
    \/ \E e \in BlockExports, b \in Budgets : InitOf(e, b)
    \/ \E e \in ManyExports, b \in ManyBudgets : InitOf(e, b)

Next ==
    \/ Start
    \/ ConvBegin
    \/ MsgStep
    \/ ConvEnd
    \/ Finish
    \/ SplitChunks
    \/ MergeChunks

Spec == Init /\ [][Next]_vars

\* the exports whose titles are plain or missing
InitPlain ==
    /\ Init
    /\ \A c \in 1..Len(json_data) : json_data[c].title \in { PlainTitle, << >> }

SpecPlain == InitPlain /\ [][Next]_vars

(***************************************************************************)
(* best_fit_decreasing on lists of chunks of every size                    *)
(***************************************************************************)

\* most chunks of a list
MaxChunks == 3
\* longest content of a chunk
MaxContent == 4

\* a chunk: the prefix, when it has one, and n times the letter of its place
ChunkOf(n, L, prefixed) ==
    (IF prefixed THEN overall_header ELSE << >>) \o [ j \in 1..n |-> L ]

ChunkShapes == (0..MaxContent) \X BOOLEAN
MergeBudgets == { 8, 12, 16 }

\* sizes far enough apart for a later bin to be fuller than an earlier one
WideSizes == { 1, 5, 6, 10 }

InitMerge ==
    /\ \/ \E n \in 0..MaxChunks :
            \E f \in [ 1..n -> ChunkShapes ] :
               initial_chunks = [ c \in 1..n |-> ChunkOf(f[c][1], Letters[c], f[c][2]) ]
       \/ \E f \in [ 1..(MaxChunks + 1) -> WideSizes ] :
            initial_chunks = [ c \in DOMAIN f |-> ChunkOf(f[c], Letters[c], TRUE) ]
    /\ max_chars \in MergeBudgets
    /\ pc = "split"
    /\ json_data = << >>
    /\ i = 0
    /\ messages = << >>
    /\ k = 0
    /\ conv_header = << >>
    /\ pending_user = << >>
    /\ assistant_buffer = << >>
    /\ out_lines = << >>
    /\ records = << >>
    /\ tana_text = << >>
    /\ merged_chunks = << >>
    /\ uploaded_file = << >>
    /\ session_state = NewSession
    /\ page = BlankPage

NextMerge == MergeChunks

SpecMerge == InitMerge /\ [][NextMerge]_vars

(***************************************************************************)
(* The app in JSON File mode: each interaction runs the script once more   *)
(***************************************************************************)

\* json.loads(raw_json_str): << value >>, or << >> when it raises
json_loads(file) == IF file.parses THEN << file.value >> ELSE << >>

\* the files a user can put into the uploader: one that does not parse, an
\* empty list, and two exports of one conversation
AppFiles ==
    { [ parses |-> FALSE, value |-> << >> ],
      [ parses |-> TRUE,  value |-> << >> ],
      [ parses |-> TRUE,  value |-> << KindConv("QA", 1) >> ],
      [ parses |-> TRUE,  value |-> << KindConv("A", 2) >> ] }

ERR_LOADING == "Error loading JSON"
ERR_NO_JSON == "No JSON loaded or file is empty."
ERR_NO_CONTENT == "No content generated."

\* the session after "if uploaded_file is not None: try ... except"
SessionAfterLoad(file, session) ==
    IF file # << >> /\ json_loads(file[1]) # << >>
    THEN [ session EXCEPT !.json_data = json_loads(file[1]) ]
    ELSE session

\* the errors of the load
LoadErrors(file) ==
    IF file # << >> /\ json_loads(file[1]) = << >> THEN { ERR_LOADING } ELSE { }

\* not st.session_state.get("json_data"): no key, or an empty list
NoJsonData(session) ==
    session.json_data = << >> \/ session.json_data[1] = << >>

\* "if st.session_state.merged_chunks:" the preview and the ZIP of the files
Preview(session) ==
    IF session.merged_chunks # << >> /\ session.merged_chunks[1] # << >>
    THEN session.merged_chunks[1]
    ELSE << >>

\* the variables of the conversion, as they are when a run of the script begins
LocalsCleared ==
    /\ i' = 0
    /\ messages' = << >>
    /\ k' = 0
    /\ conv_header' = << >>
    /\ pending_user' = << >>
    /\ assistant_buffer' = << >>
    /\ out_lines' = << >>
    /\ records' = << >>
    /\ tana_text' = << >>
    /\ initial_chunks' = << >>
    /\ merged_chunks' = << >>

\* the user puts a file into the uploader, takes it out or touches a widget:
\* the script runs without the button
Upload ==
    /\ pc = "idle"
    /\ \E f \in { << >> } \cup { << file >> : file \in AppFiles } :
          /\ uploaded_file' = f
          /\ session_state' = SessionAfterLoad(f, session_state)
          /\ page' = [ button |-> FALSE,
                       errors |-> LoadErrors(f),
                       files  |-> Preview(SessionAfterLoad(f, session_state)) ]
    /\ UNCHANGED << json_data, max_chars, pc, i, messages, k, conv_header,
                    pending_user, assistant_buffer, out_lines, records, tana_text,
                    initial_chunks, merged_chunks >>

\* the user presses "Convert JSON": the script loads the file of the uploader
\* again, then converts st.session_state.json_data when there is any
PressConvert ==
    /\ pc = "idle"
    /\ LET session == SessionAfterLoad(uploaded_file, session_state)
       IN  /\ session_state' = session
           /\ IF NoJsonData(session)
              THEN /\ page' = [ button |-> TRUE,
                                errors |-> LoadErrors(uploaded_file) \cup { ERR_NO_JSON },
                                files  |-> Preview(session) ]
                   /\ UNCHANGED << json_data, pc >>
              ELSE /\ page' = [ button |-> TRUE,
                                errors |-> LoadErrors(uploaded_file),
                                files  |-> << >> ]
                   /\ json_data' = session.json_data[1]
                   /\ pc' = "start"
    /\ LocalsCleared
    /\ UNCHANGED << max_chars, uploaded_file >>

\* the end of the run that converted: the result is stored when there is
\* one, and the preview and the ZIP show what the session holds
ShowResult ==
    /\ pc = "merged"
    /\ LET session == IF merged_chunks # << >>
                      THEN [ session_state EXCEPT !.merged_chunks = << merged_chunks >> ]
                      ELSE session_state
       IN  /\ session_state' = session
           /\ page' = [ page EXCEPT
                          !.errors = IF merged_chunks # << >> THEN @
                                     ELSE @ \cup { ERR_NO_CONTENT },
                          !.files = Preview(session) ]
    /\ pc' = "idle"
    /\ json_data' = << >>
    /\ LocalsCleared
    /\ UNCHANGED << max_chars, uploaded_file >>

InitApp ==
    /\ json_data = << >>
    /\ max_chars = MAX_FILE_SIZE
    /\ pc = "idle"
    /\ i = 0
    /\ messages = << >>
    /\ k = 0
    /\ conv_header = << >>
    /\ pending_user = << >>
    /\ assistant_buffer = << >>
    /\ out_lines = << >>
    /\ records = << >>
    /\ tana_text = << >>
    /\ initial_chunks = << >>
    /\ merged_chunks = << >>
    /\ uploaded_file = << >>
    /\ session_state = NewSession
    /\ page = BlankPage

NextApp ==
    \/ Upload
    \/ PressConvert
    \/ Start
    \/ ConvBegin
    \/ MsgStep
    \/ ConvEnd
    \/ Finish
    \/ SplitChunks
    \/ MergeChunks
    \/ ShowResult

SpecApp == InitApp /\ [][NextApp]_vars

(***************************************************************************)
(* Notions the properties are stated in                                    *)
(***************************************************************************)

\* a creation timestamp, a missing one counting as zero
TimeOrZero(m) == IF m.create_time = NoTime THEN 0 ELSE m.create_time

\* place of the message with this id in a sequence of messages, 0 if absent
PlaceOf(msgs, id) ==
    IF \E n \in 1..Len(msgs) : msgs[n].id = id
    THEN CHOOSE n \in 1..Len(msgs) : msgs[n].id = id
    ELSE 0

\* a message the consolidator acts on: user, assistant or tool, with text
Spoken(m) ==
    /\ m.role \in { "user", "assistant", "tool" }
    /\ extract_text(m) # << >>
IsQuestion(m) == m.role = "user" /\ extract_text(m) # << >>
IsAnswer(m) == m.role \in { "assistant", "tool" } /\ extract_text(m) # << >>

\* the texts of the answers at the places from+1 .. to-1 of msgs, in order
RECURSIVE AnswersBetween(_, _, _)
AnswersBetween(msgs, from, to) ==
    IF from + 1 >= to THEN << >>
    ELSE AnswersBetween(msgs, from, to - 1)
         \o (IF IsAnswer(msgs[to - 1]) THEN << extract_text(msgs[to - 1]) >>
             ELSE << >>)

\* the ids of the questions of msgs whose next spoken message is an answer
RECURSIVE AnsweredQuestions(_)
AnsweredQuestions(msgs) ==
    IF msgs = << >> THEN << >>
    ELSE LET later == SelectSeq(Tail(msgs), Spoken)
         IN  (IF IsQuestion(msgs[1]) /\ later # << >> /\ IsAnswer(later[1])
              THEN << msgs[1].id >> ELSE << >>)
             \o AnsweredQuestions(Tail(msgs))

\* the questions of the records of conversation c, in the order of emission
RECURSIVE RecordQuestions(_, _)
RecordQuestions(recs, c) ==
    IF recs = << >> THEN << >>
    ELSE (IF recs[1].conv = c THEN << recs[1].q >> ELSE << >>)
         \o RecordQuestions(Tail(recs), c)

\* the step at hand receives a question
AtQuestion == pc = "msgs" /\ k <= Len(messages) /\ IsQuestion(messages[k])
\* the step at hand is the end of the conversation
AtConvEnd == pc = "msgs" /\ k > Len(messages)

(***************************************************************************)
(* C7                                                                      *)
(***************************************************************************)

\* C7: the messages the consolidator walks through are the present messages
\* of the mapping in ascending order of creation timestamp, a missing
\* timestamp counting as zero, and messages of equal timestamp are in their
\* order of enumeration in the mapping.
C7_SortedStable ==
    pc = "msgs" =>
        LET present == { n \in 1..Len(json_data[i].mapping) :
                           json_data[i].mapping[n].message # << >> }
        IN  /\ Len(messages) = Cardinality(present)
            /\ { messages[a].id : a \in 1..Len(messages) } = present
            /\ \A a \in 1..Len(messages) :
                 messages[a] = json_data[i].mapping[messages[a].id].message[1]
            /\ \A a, b \in 1..Len(messages) :
                 a < b =>
                   \/ TimeOrZero(messages[a]) < TimeOrZero(messages[b])
                   \/ /\ TimeOrZero(messages[a]) = TimeOrZero(messages[b])
                      /\ messages[a].id < messages[b].id

\* a conversation whose sort moved a message and kept a tie, one of the two
\* timestamps missing, in the order of the mapping
C7_Witness ==
    /\ pc = "msgs"
    /\ k > Len(messages)
    /\ messages # GatherMessages(json_data[i].mapping)
    /\ \E a \in 1..(Len(messages) - 1) :
         /\ messages[a].create_time = NoTime
         /\ messages[a + 1].create_time = 0

(***************************************************************************)
(* C8                                                                      *)
(***************************************************************************)

\* C8: a question that has received an answer is emitted as one record when
\* the next question arrives or the conversation ends, and at no other step;
\* the answer of the record is the texts of the assistant/tool messages
\* received since the question, in order, joined by a newline; after the
\* flush at a question that question is pending with an empty buffer; at the
\* end of a conversation its records are its answered questions, once each.
C8_FlushStep ==
    /\ (FinalizeFires(pending_user, assistant_buffer) /\ (AtQuestion \/ AtConvEnd))
         => /\ Len(records') = Len(records) + 1
            /\ SubSeq(records', 1, Len(records)) = records
            /\ LET r == records'[Len(records')]
                   q == pending_user[1]
               IN  /\ r.conv = i
                   /\ r.q = q.id
                   /\ r.answer = Join(AnswersBetween(messages,
                                                     PlaceOf(messages, q.id), k), NL)
            /\ AtQuestion => /\ pending_user' = << messages[k] >>
                             /\ assistant_buffer' = << >>
    /\ records' # records
         => FinalizeFires(pending_user, assistant_buffer) /\ (AtQuestion \/ AtConvEnd)
    /\ AtConvEnd => RecordQuestions(records', i) = AnsweredQuestions(messages)

C8_OneRecordPerAnsweredQuestion == [][C8_FlushStep]_vars

\* a question with two answers has been flushed by the next question, which
\* is now pending with an empty buffer
C8_Witness ==
    /\ pc = "msgs"
    /\ records # << >>
    /\ Count(records[Len(records)].answer, NL) = 1
    /\ pending_user # << >>
    /\ assistant_buffer = << >>
    /\ k > 1
    /\ pending_user[1] = messages[k - 1]

(***************************************************************************)
(* C9                                                                      *)
(***************************************************************************)

LetterSet == { Letters[n] : n \in 1..Len(Letters) }

\* the letters of a text: they tell the message of the export it came from
LettersIn(text) == { L \in LetterSet : CountChar(text, L) > 0 }

\* the questions of msgs that the next spoken message, a question, replaces
ReplacedQuestions(msgs) ==
    LET spoken == SelectSeq(msgs, Spoken)
    IN  { spoken[n] : n \in { j \in 1..(Len(spoken) - 1) :
                                 IsQuestion(spoken[j]) /\ IsQuestion(spoken[j + 1]) } }

\* C9: when a question arrives while a question is pending and no answer
\* has been received, nothing is emitted (no output line, no record), the
\* new question becomes the pending one, and the text of the replaced
\* question is in no line of the output of its conversation.
C9_ReplaceStep ==
    /\ (AtQuestion /\ pending_user # << >> /\ assistant_buffer = << >>)
         => /\ out_lines' = out_lines
            /\ records' = records
            /\ pending_user' = << messages[k] >>
            /\ assistant_buffer' = << >>
    /\ AtConvEnd
         => \A m \in ReplacedQuestions(messages) :
               /\ \A L \in LettersIn(extract_text(m)) :
                     CountChar(Join(out_lines', << >>), L) = 0
               /\ \A n \in 1..Len(records') :
                     ~(records'[n].conv = i /\ records'[n].q = m.id)

C9_UnansweredQuestionDropped == [][C9_ReplaceStep]_vars

\* a pending question has just replaced an unanswered one
C9_Witness ==
    /\ pc = "msgs"
    /\ k = 3
    /\ IsQuestion(messages[1])
    /\ IsQuestion(messages[2])
    /\ pending_user = << messages[2] >>
    /\ out_lines = << TANA_MARKER, << >>, Join(conv_header, NL), << >> >>
    /\ records = << >>

(***************************************************************************)
(* C1                                                                      *)
(***************************************************************************)

\* a bin wraps one chunk that exceeds the budget, with or without its prefix
WrapsOneOversized(bin, budget) ==
    /\ Len(bin.items) = 1
    /\ Len(bin.items[1]) + Len(overall_header) > budget

\* C1: every file best_fit_decreasing returns for chunks that start with the
\* prefix is, its prefix included, at most max_chars long, unless it wraps
\* exactly one chunk that itself exceeds max_chars.
C1_FilesWithinBudget ==
    (/\ pc = "merged"
     /\ \A n \in 1..Len(initial_chunks) : StartsWith(initial_chunks[n], overall_header))
    =>  LET bins == Bins(initial_chunks, max_chars)
        IN  \A n \in 1..Len(merged_chunks) :
              \/ Len(merged_chunks[n]) <= max_chars
              \/ WrapsOneOversized(bins[n], max_chars)

(***************************************************************************)
(* C2                                                                      *)
(***************************************************************************)

\* the header of a conversation text and any one of its lines fit the budget
HeaderAndAnyLineFit(convo, budget) ==
    LET parsed == QnaParse(overall_header \o convo, budget)
        header_text == Join(parsed.header_lines, NL)
        lines == splitlines(convo)
    IN  \A n \in 1..Len(lines) : Len(header_text) + 2 + Len(lines[n]) <= budget

\* C2: every chunk split_tana_by_conversations returns is at most max_chars
\* long, whenever the header of every conversation and any single line of
\* it fit the budget.
C2_ChunksWithinBudget ==
    (/\ pc = "split"
     /\ \A n \in 1..Len(Convos(tana_text)) :
          HeaderAndAnyLineFit(Convos(tana_text)[n], max_chars))
    => \A n \in 1..Len(initial_chunks) : Len(initial_chunks[n]) <= max_chars

(***************************************************************************)
(* C4                                                                      *)
(***************************************************************************)

\* the block of a record fits the budget behind the header of its
\* conversation: nothing forces a split of its lines
BlockFits(r) ==
    Len(overall_header) + Len(Join(ConvHeader(json_data[r.conv]), NL)) + 2
        + Len(r.block) <= max_chars

\* C4: the lines of a Q-A block that fits the budget are together, in
\* order, in one chunk and in one final file.
C4_BlockNeverCut ==
    pc = "merged" =>
        \A n \in 1..Len(records) :
           BlockFits(records[n]) =>
              /\ \E c \in 1..Len(initial_chunks) :
                    Contains(initial_chunks[c], records[n].block)
              /\ \E f \in 1..Len(merged_chunks) :
                    Contains(merged_chunks[f], records[n].block)

(***************************************************************************)
(* C5                                                                      *)
(***************************************************************************)

\* the text starts with the header marker and holds it once
MarkerOnceAtStart(text) ==
    /\ StartsWith(text, TANA_MARKER)
    /\ Count(text, TANA_MARKER) = 1

\* C5: every chunk of split_tana_by_conversations and every file of
\* best_fit_decreasing starts with the header marker and holds it once.
C5_MarkerOnce ==
    pc = "merged" =>
        /\ \A n \in 1..Len(initial_chunks) : MarkerOnceAtStart(initial_chunks[n])
        /\ \A n \in 1..Len(merged_chunks) : MarkerOnceAtStart(merged_chunks[n])

(***************************************************************************)
(* C6                                                                      *)
(***************************************************************************)

\* the conversation text is split by split_conversation_by_qna
Oversized(convo, budget) == Len(convo) + Len(overall_header) > budget

\* C6: when split_conversation_by_qna returns several chunks for a
\* conversation, every one of them starts with the complete header of the conversation as serialized, the
\* title line to the Chat:: line, and a blank line after it.
C6_CompleteHeaderRepeated ==
    (pc = "split" /\ Len(Convos(tana_text)) = Len(json_data)) =>
        \A n \in 1..Len(json_data) :
           Oversized(Convos(tana_text)[n], max_chars) =>
              LET chunks == split_conversation_by_qna(
                                overall_header \o Convos(tana_text)[n], max_chars)
              IN  Len(chunks) > 1 =>
                  \A c \in 1..Len(chunks) :
                     StartsWith(chunks[c],
                                overall_header
                                \o Join(ConvHeader(json_data[n]), NL) \o NLNL)

(***************************************************************************)
(* C10                                                                     *)
(***************************************************************************)

\* the text is wrapped in a pair of straight or a pair of curly quotes
MatchingQuotes(text) ==
    /\ Len(text) >= 2
    /\ \/ text[1] = DQUOTE /\ text[Len(text)] = DQUOTE
       \/ text[1] = LDQUO /\ text[Len(text)] = RDQUO

\* C10: a record is "voice", its question rendered without the two quotes,
\* exactly when the text of the question is wrapped in a matching pair of
\* quotes; otherwise it is "text" and the question is rendered unchanged.
C10_VoiceIffMatchingQuotes ==
    \A n \in 1..Len(records) :
       LET r == records[n]
       IN  IF MatchingQuotes(r.user_text)
           THEN /\ r.chat_type = VOICE
                /\ r.question = Strip(SubSeq(r.user_text, 2, Len(r.user_text) - 1))
           ELSE /\ r.chat_type = TEXT
                /\ r.question = r.user_text

(***************************************************************************)
(* C3                                                                      *)
(***************************************************************************)

\* the messages of a conversation the consolidator acts on, in its order
SpokenMessages(conv) ==
    SelectSeq(SortMessages(GatherMessages(conv.mapping)), Spoken)

\* the question at place n is followed by a question: it is replaced
Replaced(spoken, n) ==
    /\ IsQuestion(spoken[n])
    /\ n < Len(spoken)
    /\ IsQuestion(spoken[n + 1])

\* the question at place n is followed by a question or by nothing
Unanswered(spoken, n) ==
    /\ IsQuestion(spoken[n])
    /\ (n = Len(spoken) \/ IsQuestion(spoken[n + 1]))

\* how often the text of a message is in the final files
Occurrences(m) ==
    { CountChar(Join(merged_chunks, << >>), L) : L \in LettersIn(extract_text(m)) }

\* C3 as stated: every message with text is once in the final files, but
\* for a question that the next question replaces.
C3_EveryMessageOnce ==
    pc = "merged" =>
        \A c \in 1..Len(json_data) :
           LET all == GatherMessages(json_data[c].mapping)
               spoken == SpokenMessages(json_data[c])
           IN  \A n \in 1..Len(all) :
                  extract_text(all[n]) # << >> =>
                     \/ /\ PlaceOf(spoken, all[n].id) # 0
                        /\ Replaced(spoken, PlaceOf(spoken, all[n].id))
                     \/ Occurrences(all[n]) = { 1 }

\* C3 as amended: every user, assistant or tool message with text is once
\* in the final files, but for a question with no answer before the next
\* question or the end of its conversation, which is nowhere in them, as is
\* a message of any other role.
C3_EverySpokenMessageOnce ==
    pc = "merged" =>
        \A c \in 1..Len(json_data) :
           LET all == GatherMessages(json_data[c].mapping)
               spoken == SpokenMessages(json_data[c])
           IN  \A n \in 1..Len(all) :
                  extract_text(all[n]) # << >> =>
                     LET place == PlaceOf(spoken, all[n].id)
                     IN  IF place # 0 /\ ~Unanswered(spoken, place)
                         THEN Occurrences(all[n]) = { 1 }
                         ELSE Occurrences(all[n]) = { 0 }

\* the merger has packed the chunks of an export into fewer files, more
\* than one; the export has a record and a conversation whose last question
\* has no answer, and that question is in no file
C3_Witness ==
    /\ pc = "merged"
    /\ Len(merged_chunks) > 1
    /\ Len(initial_chunks) > Len(merged_chunks)
    /\ records # << >>
    /\ \E c \in 1..Len(json_data) :
          LET spoken == SpokenMessages(json_data[c])
          IN  /\ spoken # << >>
              /\ Unanswered(spoken, Len(spoken))
              /\ Occurrences(spoken[Len(spoken)]) = { 0 }

(***************************************************************************)
(* C11                                                                     *)
(***************************************************************************)

\* the contents of the chunks, in the order of the input
Contents(chunks) == [ n \in 1..Len(chunks) |-> ContentOf(chunks[n]) ]

\* the place of the nth content in descending order of size, ties in the
\* order of the input
RankOf(contents, n) ==
    1 + Cardinality({ m \in 1..Len(contents) :
                        \/ Len(contents[m]) > Len(contents[n])
                        \/ Len(contents[m]) = Len(contents[n]) /\ m < n })

\* the bins once the first j contents of the sorted list have been placed
BinsAfter(chunks, budget, j) ==
    BinLoop(SubSeq(ChunkInfo(chunks), 1, j), budget, << >>)

\* the bins with room for a content of this size and the separator
BinsWithRoom(bins, size, budget) ==
    { b \in 1..Len(bins) : size + 2 <= budget - bins[b].used }

\* the capacity a bin has left once a content of this size is in it
LeftAfter(bin, size, budget) == budget - bin.used - (size + 2)

\* the bin with room that is left with the least capacity, the earliest of them
TightestBin(bins, size, budget) ==
    CHOOSE b \in BinsWithRoom(bins, size, budget) :
        \A c \in BinsWithRoom(bins, size, budget) :
            \/ LeftAfter(bins[b], size, budget) < LeftAfter(bins[c], size, budget)
            \/ /\ LeftAfter(bins[b], size, budget) = LeftAfter(bins[c], size, budget)
               /\ b <= c

\* the jth content of the sorted list went where best fit puts it
PlacedByBestFit(chunks, budget, j) ==
    LET content == ChunkInfo(chunks)[j]
        size == Len(content)
        before == BinsAfter(chunks, budget, j - 1)
        after == BinsAfter(chunks, budget, j)
    IN  IF BinsWithRoom(before, size, budget) = { }
        THEN /\ Len(after) = Len(before) + 1
             /\ SubSeq(after, 1, Len(before)) = before
             /\ after[Len(after)].items = << content >>
             /\ after[Len(after)].used = size
        ELSE LET b == TightestBin(before, size, budget)
             IN  /\ Len(after) = Len(before)
                 /\ \A c \in 1..Len(before) : c # b => after[c] = before[c]
                 /\ after[b].items = Append(before[b].items, content)
                 /\ after[b].used = before[b].used + size + 2

\* C11: best_fit_decreasing takes the contents in descending order of size,
\* equal sizes in the order of the input; each goes into the bin that, among
\* those with room for it and the separator, is left with the least capacity,
\* the earliest on a tie, and opens a new bin only when no bin has room; the
\* files are the bins, their contents joined by a blank line after the prefix.
C11_BestFitDecreasing ==
    pc = "merged" =>
        LET contents == Contents(initial_chunks)
            info == ChunkInfo(initial_chunks)
            bins == BinsAfter(initial_chunks, max_chars, Len(info))
        IN  /\ Len(info) = Len(contents)
            /\ \A n \in 1..Len(contents) : info[RankOf(contents, n)] = contents[n]
            /\ \A j \in 1..Len(info) : PlacedByBestFit(initial_chunks, max_chars, j)
            /\ Len(merged_chunks) = Len(bins)
            /\ \A n \in 1..Len(bins) :
                  merged_chunks[n] = overall_header \o Join(bins[n].items, NLNL)

\* the sort moved a content in front of an earlier one, and a content went
\* into a later bin, the fuller one, though an earlier bin had room
C11_Witness ==
    /\ pc = "merged"
    /\ \E n \in 1..Len(initial_chunks) :
          RankOf(Contents(initial_chunks), n) < n
    /\ \E j \in 1..Len(initial_chunks) :
          LET size == Len(ChunkInfo(initial_chunks)[j])
              before == BinsAfter(initial_chunks, max_chars, j - 1)
              room == BinsWithRoom(before, size, max_chars)
          IN  /\ Cardinality(room) > 1
              /\ \E b \in room : b < TightestBin(before, size, max_chars)

\* a content that would leave two bins with the same capacity went into the
\* earlier of them
C11_TieReached ==
    /\ pc = "merged"
    /\ \E j \in 1..Len(initial_chunks) :
          LET size == Len(ChunkInfo(initial_chunks)[j])
              before == BinsAfter(initial_chunks, max_chars, j - 1)
              room == BinsWithRoom(before, size, max_chars)
          IN  \E b, c \in room :
                 /\ b < c
                 /\ before[b].used = before[c].used
                 /\ \A d \in room : before[d].used <= before[b].used
                 /\ TightestBin(before, size, max_chars) = b

(***************************************************************************)
(* C12                                                                     *)
(***************************************************************************)

\* how many elements of a sequence are equal to v
CountOf(seq, v) == Cardinality({ n \in DOMAIN seq : seq[n] = v })

\* the bodies a file holds: what follows its prefix, cut at the blank lines
BodiesOf(file) == Split(ContentOf(file), NLNL)

RECURSIVE AllBodies(_)
\* the bodies of all the files, in order
AllBodies(files) ==
    IF files = << >> THEN << >> ELSE BodiesOf(files[1]) \o AllBodies(Tail(files))

FailedUpload == uploaded_file # << >> /\ json_loads(uploaded_file[1]) = << >>

\* C13: when Convert has been pressed while the file in the uploader is one
\* that fails to parse, the page the run leaves offers no output files,
\* whatever was loaded or converted earlier in the session.
C13_NoOutputAfterFailedUpload ==
    (FailedUpload /\ page.button /\ pc = "idle") => page.files = << >>

(***************************************************************************)
(* C14                                                                     *)
(***************************************************************************)

\* the lines of the body of a text: every line the serializer writes below a
\* header is indented by four spaces or more, no line of a header is
BodyLines(text) ==
    SelectSeq(splitlines(text),
              LAMBDA line : Strip(line) # << >> /\ StartsWith(line, Spaces(4)))

RECURSIVE ChunkBodyLines(_)
\* the body lines of the chunks, read in order
ChunkBodyLines(chunks) ==
    IF chunks = << >> THEN << >>
    ELSE BodyLines(chunks[1]) \o ChunkBodyLines(Tail(chunks))

\* the first line of the header of a conversation is a line of some chunk
ConversationKept(conv, chunks) ==
    \E n \in 1..Len(chunks) :
       \E l \in 1..Len(splitlines(chunks[n])) :
          splitlines(chunks[n])[l] = ConvHeader(conv)[1]

RECURSIVE Flatten(_)
\* the lines of the pieces, read in order
Flatten(pieces) ==
    IF pieces = << >> THEN << >>
    ELSE splitlines(pieces[1]) \o Flatten(Tail(pieces))

\* sizes to force-split a block at
ForceSizes == { 1, 20, 40, 90 }

\* C14: the chunks of split_tana_by_conversations, read in order, hold every
\* conversation of the export and, headers and marker apart, the non-blank
\* body lines of the text once each in their order; and the pieces of
\* force_split_large_qna_block, read in order, are the lines of the block.
C14_SplitLossless ==
    pc = "split" =>
        /\ \A c \in 1..Len(json_data) : ConversationKept(json_data[c], initial_chunks)
        /\ ChunkBodyLines(initial_chunks) = BodyLines(tana_text)
        /\ \A r \in 1..Len(records) : \A available \in ForceSizes :
              Flatten(force_split_large_qna_block(records[r].block, available))
                 = splitlines(records[r].block)

(***************************************************************************)
(* C15                                                                     *)
(***************************************************************************)

\* a question is among the messages before place n
QuestionBefore(msgs, n) == \E j \in 1..(n - 1) : IsQuestion(msgs[j])

\* the letters of the messages of a conversation
ConvLetters(conv) ==
    UNION { LettersIn(extract_text(m)) :
              m \in { conv.mapping[n].message[1] :
                        n \in { j \in 1..Len(conv.mapping) :
                                  conv.mapping[j].message # << >> } } }

\* C15: a conversation starts with no pending question and an empty buffer,
\* and once a question has been processed one is pending until the
\* conversation ends; an answer is written at once as a standalone block
\* exactly when no question precedes it in the sorted messages, and joins
\* the buffer otherwise; a message without text changes nothing; and the
\* question and the answer of a record are texts of its own conversation.
C15_Step ==
    /\ pc = "conv" => (pending_user' = << >> /\ assistant_buffer' = << >>)
    /\ (pc = "msgs" /\ pc' = "msgs")
         => /\ pending_user' # << >> <=> QuestionBefore(messages, k')
            /\ pending_user # << >> => pending_user' # << >>
    /\ (pc = "msgs" /\ k <= Len(messages))
         => LET msg == messages[k]
                text == extract_text(msg)
            IN  /\ text = << >>
                     => UNCHANGED << pending_user, assistant_buffer, out_lines, records >>
                /\ (IsAnswer(msg) /\ ~QuestionBefore(messages, k))
                     => /\ out_lines' = out_lines \o
                              << STANDALONE_LINE, format_multiline_as_nodes(text, 8) >>
                        /\ UNCHANGED << pending_user, assistant_buffer, records >>
                /\ (IsAnswer(msg) /\ QuestionBefore(messages, k))
                     => /\ assistant_buffer' = Append(assistant_buffer, text)
                        /\ UNCHANGED << pending_user, out_lines, records >>
    /\ \A r \in 1..Len(records') :
          /\ LettersIn(records'[r].user_text) \subseteq ConvLetters(json_data[records'[r].conv])
          /\ LettersIn(records'[r].answer) \subseteq ConvLetters(json_data[records'[r].conv])
          /\ LettersIn(records'[r].answer) # { }

C15_IdleOnlyBeforeFirstQuestion == [][C15_Step]_vars

\* a user message without text has just been passed over: the question is
\* still pending and its answer still in the buffer
C15_Witness ==
    /\ pc = "msgs"
    /\ k > 1
    /\ messages[k - 1].role = "user"
    /\ extract_text(messages[k - 1]) = << >>
    /\ pending_user # << >>
    /\ assistant_buffer # << >>
    /\ records = << >>

\* in a later conversation an answer has been written as a standalone block
\* though the conversation before it ended on a question without an answer
C15_NextConversationIdle ==
    /\ pc = "msgs"
    /\ i > 1
    /\ k = 2
    /\ IsAnswer(messages[1])
    /\ pending_user = << >>
    /\ Len(SpokenMessages(json_data[i - 1])) = 1
    /\ IsQuestion(SpokenMessages(json_data[i - 1])[1])
    /\ out_lines[Len(out_lines) - 1] = STANDALONE_LINE

=============================================================================
